---------------------------- MODULE Spec2Model ----------------------------
(***************************************************************************)
(* Model of Homework2/Bandit.py: the EpsilonGreedy and ThompsonSampling    *)
(* policies, their experiment loops, and the cumulative reward / regret    *)
(* report of Visualization.                                                *)
(*                                                                         *)
(* Python lists are sequences indexed from 1; arm indices keep Python's    *)
(* 0-based numbering, and list subscripts follow Python's rules (negative  *)
(* subscripts count from the end, anything else out of range raises        *)
(* IndexError).  Python floats are modelled as IEEE 754 doubles            *)
(* <<s, m, e>> of value s * m * 2^e, every operation rounding to nearest.  *)
(***************************************************************************)
EXTENDS Integers, Sequences, FiniteSets, Bags, TLC

\* ------------------------------------------------------------------ bounds

\* Largest number of arms in a generated true_means list.
MaxK == 2

\* Largest num_trials passed to experiment.
MaxTrials == 2

\* Largest number of direct pull/update calls made on one policy instance.
MaxCalls == 3

\* ---------------------------------------------- natural numbers of any size

\* A natural number is the sequence of its base-2^15 digits, least
\* significant first, with no leading zero digit; zero is <<>>.  The
\* arithmetic is written as functions rather than operators: TLC evaluates
\* the argument of a function application once, wherever it is applied.
Limb == 32768

LimbBits == 15

Abs(x) == IF x < 0 THEN -x ELSE x

Pow2[k \in Nat] == IF k = 0 THEN 1 ELSE 2 * Pow2[k - 1]

SmallBitLen[n \in Nat] == IF n = 0 THEN 0 ELSE 1 + SmallBitLen[n \div 2]

SmallTrailingZeros[n \in Nat] ==
    IF n % 2 = 1 THEN 0 ELSE 1 + SmallTrailingZeros[n \div 2]

BigOfNat[n \in Nat] ==
    IF n = 0 THEN <<>> ELSE <<n % Limb>> \o BigOfNat[n \div Limb]

BigTrim[a \in Seq(Nat)] ==
    IF a = <<>> THEN a
    ELSE IF a[Len(a)] = 0 THEN BigTrim[SubSeq(a, 1, Len(a) - 1)] ELSE a

BigRest(a) == IF a = <<>> THEN a ELSE Tail(a)

BigLow(a) == IF a = <<>> THEN 0 ELSE a[1]

\* a + b + c for a carry c.
BigAddC[a \in Seq(Nat), b \in Seq(Nat), c \in Nat] ==
    IF a = <<>> /\ b = <<>> THEN (IF c = 0 THEN <<>> ELSE <<c>>)
    ELSE <<(BigLow(a) + BigLow(b) + c) % Limb>>
             \o BigAddC[BigRest(a), BigRest(b),
                        (BigLow(a) + BigLow(b) + c) \div Limb]

BigAdd(a, b) == BigAddC[a, b, 0]

\* The digits of a - b - br for a borrow br, a >= b + br.
BigSubB[a \in Seq(Nat), b \in Seq(Nat), br \in Nat] ==
    IF a = <<>> THEN <<>>
    ELSE <<(a[1] - BigLow(b) - br + Limb) % Limb>>
             \o BigSubB[Tail(a), BigRest(b),
                        IF a[1] - BigLow(b) - br < 0 THEN 1 ELSE 0]

BigSub(a, b) == BigTrim[BigSubB[a, b, 0]]

\* -1, 0 or 1 as a < b, a = b or a > b.
BigCmp[a \in Seq(Nat), b \in Seq(Nat)] ==
    IF Len(a) # Len(b) THEN (IF Len(a) < Len(b) THEN -1 ELSE 1)
    ELSE IF a = <<>> THEN 0
    ELSE IF a[Len(a)] # b[Len(a)]
         THEN (IF a[Len(a)] < b[Len(a)] THEN -1 ELSE 1)
    ELSE BigCmp[SubSeq(a, 1, Len(a) - 1), SubSeq(b, 1, Len(a) - 1)]

\* a * k + c for one digit k >= 1 and a carry c.
BigMulSmallC[a \in Seq(Nat), k \in Nat, c \in Nat] ==
    IF a = <<>> THEN (IF c = 0 THEN <<>> ELSE <<c>>)
    ELSE <<(a[1] * k + c) % Limb>>
             \o BigMulSmallC[Tail(a), k, (a[1] * k + c) \div Limb]

\* a * k for one digit k.
BigMulSmall[a \in Seq(Nat), k \in Nat] ==
    IF k = 0 THEN <<>> ELSE IF k = 1 THEN a ELSE BigMulSmallC[a, k, 0]

\* a * Limb
BigTimesLimb[a \in Seq(Nat)] == IF a = <<>> THEN a ELSE <<0>> \o a

BigMul[a \in Seq(Nat), b \in Seq(Nat)] ==
    IF a = <<>> \/ b = <<>> THEN <<>>
    ELSE BigAdd(BigMulSmall[a, b[1]], BigTimesLimb[BigMul[a, Tail(b)]])

\* The quotient digit x \div d put in front of the quotient q of the higher
\* digits, with the remainder x % d.
BigDivStep[q \in Seq(Nat), x \in Nat, d \in Nat] ==
    <<IF q = <<>> /\ x \div d = 0 THEN <<>> ELSE <<x \div d>> \o q, x % d>>

\* The quotient and remainder of a by d, from a's lowest digit and the
\* quotient and remainder hi of its higher digits.
BigDivHigh[low \in Nat, hi \in Seq(Nat) \X Nat, d \in Nat] ==
    BigDivStep[hi[1], hi[2] * Limb + low, d]

\* <<a \div d, a % d>> for 1 <= d <= Limb.
BigDivSmall[a \in Seq(Nat), d \in Nat] ==
    IF a = <<>> THEN <<<<>>, 0>>
    ELSE BigDivHigh[a[1], BigDivSmall[Tail(a), d], d]

\* a * 2^k
BigShl[a \in Seq(Nat), k \in Nat] ==
    IF a = <<>> \/ k = 0 THEN a
    ELSE [i \in 1..(k \div LimbBits) |-> 0]
             \o BigMulSmall[a, Pow2[k % LimbBits]]

\* a \div 2^k
BigShr[a \in Seq(Nat), k \in Nat] ==
    IF k = 0 THEN a
    ELSE IF k \div LimbBits >= Len(a) THEN <<>>
    ELSE BigDivSmall[SubSeq(a, (k \div LimbBits) + 1, Len(a)),
                     Pow2[k % LimbBits]][1]

\* The number of binary digits of a.
BigBitLen[a \in Seq(Nat)] ==
    IF a = <<>> THEN 0 ELSE (Len(a) - 1) * LimbBits + SmallBitLen[a[Len(a)]]

\* The number of trailing zero binary digits of a # 0.
BigTrailingZeros[a \in Seq(Nat)] ==
    IF a[1] = 0 THEN LimbBits + BigTrailingZeros[Tail(a)]
    ELSE SmallTrailingZeros[a[1]]

\* ------------------------------------------------------------------ floats

\* A Python float (an IEEE 754 double) is <<s, m, e>>, its value s * m * 2^e:
\* s is 1 or -1, m an odd natural number of at most 53 binary digits, e an
\* integer; 0.0 is <<1, <<>>, 0>>.  Every operation rounds its exact result
\* to the nearest double, ties to the even mantissa.  The exponent is
\* unbounded: overflow, subnormals, infinities, NaN and -0.0 are outside the
\* values the program computes here.
MantissaBits == 53

FloatZero == <<1, <<>>, 0>>

\* Triples <<s, m, e>>, the mantissa of any size.
Scaled == Int \X Seq(Nat) \X Int

\* s * m * 2^(e - z) for m with z > 0 trailing zeros, as s * (m / 2^z) * 2^e.
FloatStrip[s \in Int, m \in Seq(Nat), e \in Int, z \in Nat] ==
    <<s, BigShr[m, z], e + z>>

\* s * m * 2^e with the trailing zeros of m moved into the exponent.
FloatNormal[s \in Int, m \in Seq(Nat), e \in Int] ==
    IF m = <<>> THEN FloatZero
    ELSE IF m[1] % 2 = 1 THEN <<s, m, e>>
    ELSE FloatStrip[s, m, e, BigTrailingZeros[m]]

\* s * top * 2^e rounded up or not: c compares the digits dropped below top
\* with one half (-1, 0, 1), sticky tells of a remainder below them, and a
\* tie goes to the even mantissa.
FloatRoundTie[s \in Int, top \in Seq(Nat), c \in Int, sticky \in BOOLEAN, e \in Int] ==
    IF c > 0 \/ (c = 0 /\ (sticky \/ top[1] % 2 = 1))
    THEN FloatNormal[s, BigAdd(top, <<1>>), e]
    ELSE FloatNormal[s, top, e]

\* The same for m = top * 2^sh + the sh digits dropped.
FloatRoundTop[s \in Int, m \in Seq(Nat), top \in Seq(Nat), sticky \in BOOLEAN, e \in Int, sh \in Nat] ==
    FloatRoundTie[s, top,
                  BigCmp[BigSub(m, BigShl[top, sh]), BigShl[<<1>>, sh - 1]],
                  sticky, e + sh]

\* The same for m with sh digits more than a double holds, if sh > 0.
FloatRoundBy[s \in Int, m \in Seq(Nat), sticky \in BOOLEAN, e \in Int, sh \in Int] ==
    IF sh <= 0 THEN FloatNormal[s, m, e]
    ELSE FloatRoundTop[s, m, BigShr[m, sh], sticky, e, sh]

\* The double nearest to s * (m + f) * 2^e, where 0 <= f < 1 and sticky
\* tells whether f > 0 (then m has more than 53 digits).
FloatRound[s \in Int, m \in Seq(Nat), sticky \in BOOLEAN, e \in Int] ==
    FloatRoundBy[s, m, sticky, e, BigBitLen[m] - MantissaBits]

\* The double nearest to the exact value z.
FloatRounded[z \in Scaled] == FloatRound[z[1], z[2], FALSE, z[3]]

FloatOfInt[i \in Int] ==
    FloatNormal[IF i < 0 THEN -1 ELSE 1, BigOfNat[Abs(i)], 0]

\* float(i)
IntToFloat(i) == FloatOfInt[i]

\* s * (mx +/- my) * 2^e, the sign sy of my against the sign s of mx.
FloatSignedSum[s \in Int, mx \in Seq(Nat), sy \in Int, my \in Seq(Nat), e \in Int, c \in Int] ==
    IF s = sy THEN FloatNormal[s, BigAdd(mx, my), e]
    ELSE IF c = 0 THEN FloatZero
    ELSE IF c > 0 THEN FloatNormal[s, BigSub(mx, my), e]
    ELSE FloatNormal[sy, BigSub(my, mx), e]

\* The same with both mantissas brought to the exponent e.
FloatAligned[s \in Int, mx \in Seq(Nat), sy \in Int, my \in Seq(Nat), e \in Int] ==
    FloatSignedSum[s, mx, sy, my, e, BigCmp[mx, my]]

\* The exact sum of x and y, as <<s, m, e>> with m of any size.
FloatSum[x \in Scaled, y \in Scaled] ==
    IF x[2] = <<>> THEN y
    ELSE IF y[2] = <<>> THEN x
    ELSE IF x[3] <= y[3]
         THEN FloatAligned[x[1], x[2], y[1], BigShl[y[2], y[3] - x[3]], x[3]]
    ELSE FloatAligned[x[1], BigShl[x[2], x[3] - y[3]], y[1], y[2], y[3]]

\* The exact product of x and y, as <<s, m, e>> with m of any size.
FloatProduct[x \in Scaled, y \in Scaled] ==
    IF x[2] = <<>> \/ y[2] = <<>> THEN FloatZero
    ELSE FloatNormal[x[1] * y[1], BigMul[x[2], y[2]], x[3] + y[3]]

FloatNeg[x \in Scaled] == IF x[2] = <<>> THEN x ELSE <<-x[1], x[2], x[3]>>

FloatAbs[x \in Scaled] == <<1, x[2], x[3]>>

\* x + y
FloatAdd(x, y) == FloatRounded[FloatSum[x, y]]

\* x - y
FloatSub(x, y) == FloatRounded[FloatSum[x, FloatNeg[y]]]

\* x * y
FloatMul(x, y) == FloatRounded[FloatProduct[x, y]]

\* Whether z < 0.
FloatNegative[z \in Scaled] == z[2] # <<>> /\ z[1] = -1

\* x < y
FloatLess(x, y) == FloatNegative[FloatSum[x, FloatNeg[y]]]

\* The double nearest to s * (m / d) * 2^e, for exact the quotient and
\* remainder of m by d and long those of m * 2^k: the exact quotient if d
\* divides m, else the long one, of at least 55 binary digits, the remainder
\* deciding the rounding.
FloatQuotient[s \in Int, exact \in Seq(Nat) \X Nat, long \in Seq(Nat) \X Nat, e \in Int, k \in Nat] ==
    IF exact[2] = 0 THEN FloatRound[s, exact[1], FALSE, e]
    ELSE FloatRound[s, long[1], TRUE, e - k]

\* The same for m # 0 and an odd d, 3 <= d <= Limb.
FloatDivOdd[s \in Int, m \in Seq(Nat), e \in Int, d \in Nat] ==
    FloatQuotient[s, BigDivSmall[m, d],
                  BigDivSmall[BigShl[m, MantissaBits + 2 + SmallBitLen[d]], d],
                  e, MantissaBits + 2 + SmallBitLen[d]]

\* x / (odd * 2^t): the power of two only lowers the exponent.
FloatDivParts[x \in Scaled, odd \in Nat, t \in Nat] ==
    IF x[2] = <<>> THEN FloatZero
    ELSE IF odd = 1 THEN <<x[1], x[2], x[3] - t>>
    ELSE FloatDivOdd[x[1], x[2], x[3] - t, odd]

FloatDivNat[x \in Scaled, d \in Nat] ==
    FloatDivParts[x, d \div Pow2[SmallTrailingZeros[d]], SmallTrailingZeros[d]]

\* x / d for a float x and an int d, 1 <= d <= Limb.
FloatDivInt(x, d) == FloatDivNat[x, d]

\* n / d for ints n and d, 1 <= d <= Limb: Python's true division, correctly
\* rounded; also the float a decimal literal such as 0.2 = 1/5 denotes.
PyTrueDiv(n, d) == FloatDivNat[FloatOfInt[n], d]

\* ------------------------------------------------------------ Python lists

\* [v] * n
PyRepeat(v, n) == [i \in 1..n |-> v]

\* Whether s[i] is defined in Python: -len(s) <= i < len(s).
PyInRange(s, i) == i >= -Len(s) /\ i < Len(s)

\* The 1-based position Python's s[i] denotes, for i in range.
PyPos(s, i) == IF i < 0 THEN Len(s) + i + 1 ELSE i + 1

\* s[i]
PyGet(s, i) == s[PyPos(s, i)]

\* s[i] = v
PySet(s, i, v) == [s EXCEPT ![PyPos(s, i)] = v]

\* max(s) over a non-empty list of floats: the first maximal element.
RECURSIVE PyMaxFrom(_, _, _)
PyMaxFrom(s, i, best) ==
    IF i > Len(s) THEN best
    ELSE PyMaxFrom(s, i + 1, IF FloatLess(best, s[i]) THEN s[i] ELSE best)

PyMax(s) == PyMaxFrom(s, 2, s[1])

\* max(s) over a non-empty list of ints.
RECURSIVE PyMaxIntFrom(_, _, _)
PyMaxIntFrom(s, i, best) ==
    IF i > Len(s) THEN best
    ELSE PyMaxIntFrom(s, i + 1, IF best < s[i] THEN s[i] ELSE best)

PyMaxInt(s) == PyMaxIntFrom(s, 2, s[1])

\* sum(s) over a list of ints.
RECURSIVE PySum(_)
PySum(s) == IF s = <<>> THEN 0 ELSE s[1] + PySum(Tail(s))

\* s.index(v): the 0-based index of the first element equal to v (v occurs).
RECURSIVE PyIndexFrom(_, _, _)
PyIndexFrom(s, v, i) == IF s[i] = v THEN i - 1 ELSE PyIndexFrom(s, v, i + 1)

PyIndex(s, v) == PyIndexFrom(s, v, 1)

\* ------------------------------------------------------------------- state

VARIABLES
    true_means,          \* module-level true_means, bound by both policies
    epsilon,             \* EpsilonGreedy.epsilon
    num_trials,          \* the argument of experiment / comparison
    under_test,          \* what drives the policies: "comparison", or the
                         \* one instance a client calls pull/update on
    eg_estimated_means,  \* EpsilonGreedy instance: Bandit.estimated_means
    eg_action_counts,    \* EpsilonGreedy instance: action_counts
    action_values,       \* EpsilonGreedy instance: action_values
    ts_estimated_means,  \* ThompsonSampling instance: Bandit.estimated_means
    ts_action_counts,    \* ThompsonSampling instance: Bandit.action_counts
    alpha,               \* ThompsonSampling instance: alpha
    beta,                \* ThompsonSampling instance: beta
    eg_pc, ts_pc,        \* position in experiment: idle, loop, pulled, done, error
    eg_iter, ts_iter,    \* iterations of the for loop completed
    eg_arm, ts_arm,      \* <<a>> when pull last returned a (local arm), else <<>>
    eg_rewards, ts_rewards,  \* the local list rewards
    eg_err, ts_err,      \* the exception that escaped the last call, or None
    eg_branch,           \* which branch the last EpsilonGreedy.pull took
    eg_pulled, ts_pulled,    \* history: the arms pull returned inside experiment
    eg_updates, ts_updates,  \* history: the bag of update(arm, reward) calls made
    ncalls,              \* direct pull/update calls made by the client
    report,              \* <<r>> once report_cumulative_reward_and_regret ran
    summary              \* <<r>> when the client's last report() returned r

eg_state == <<eg_estimated_means, eg_action_counts, action_values>>

ts_state == <<ts_estimated_means, ts_action_counts, alpha, beta>>

eg_frame == <<eg_pc, eg_iter, eg_rewards, eg_pulled>>

ts_frame == <<ts_pc, ts_iter, ts_rewards, ts_pulled>>

config == <<true_means, epsilon, num_trials, under_test>>

eg_vars == <<eg_state, eg_frame, eg_arm, eg_err, eg_branch, eg_updates>>

ts_vars == <<ts_state, ts_frame, ts_arm, ts_err, ts_updates>>

vars == <<config, eg_vars, ts_vars, ncalls, report, summary>>

None == "None"

\* Number of arms.
K == Len(true_means)

\* --------------------------------------------------------------- inputs

\* Values an arm's true mean is drawn from.
MeanValues == {0, 1, 2}

\* The module-level true_means = [1, 2, 3, 4] (line 126).
ModuleTrueMeans == <<1, 2, 3, 4>>

\* true_means lists with k arms.
ArmSets(k) == [1..k -> MeanValues]

\* epsilon values inside [0, 1]: no exploration, the default 0.2, always explore.
Epsilons == {IntToFloat(0), PyTrueDiv(1, 5), IntToFloat(1)}

\* epsilon values outside [0, 1].
BadEpsilons == {PyTrueDiv(-1, 2), PyTrueDiv(3, 2)}

\* Values random.random() returns, in [0, 1).
RandomValues == {FloatZero, PyTrueDiv(1, 8), PyTrueDiv(7, 8)}

\* Values random.betavariate returns.
BetaValues == {PyTrueDiv(1, 4), PyTrueDiv(3, 4)}

\* Arm arguments a client passes to update: every subscript from one below
\* -K to K.
ArmInputs == (-K - 1)..K

\* Reward arguments a client passes to update.
RewardInputs == {0, 1, 2}

\* 1e20 = 100000^4, each product exact: 1e20 is 5^20 * 2^20 and 5^20 < 2^53.
LargeReward ==
    FloatMul(FloatMul(IntToFloat(100000), IntToFloat(100000)),
             FloatMul(IntToFloat(100000), IntToFloat(100000)))

\* Float reward arguments a client passes to update: 0.0, 0.1, 0.7, 2.0, 1e20.
FloatRewardInputs ==
    {FloatZero, PyTrueDiv(1, 10), PyTrueDiv(7, 10), IntToFloat(2), LargeReward}

\* ---------------------------------------------------------- construction

\* Bandit.__init__: estimated_means.
BanditEstimatedMeans(means) == PyRepeat(FloatZero, Len(means))

\* Bandit.__init__ / EpsilonGreedy.__init__: action_counts.
BanditActionCounts(means) == PyRepeat(0, Len(means))

\* EpsilonGreedy.__init__: action_values.
EpsilonGreedyActionValues(means) == PyRepeat(FloatZero, Len(means))

\* ThompsonSampling.__init__: alpha and beta.
ThompsonSamplingAlpha(means) == PyRepeat(1, Len(means))

ThompsonSamplingBeta(means) == PyRepeat(1, Len(means))

\* The state after EpsilonGreedy(means, eps) and ThompsonSampling(means) are
\* constructed, before any method is called.
Constructed(means, eps, n, who) ==
    /\ true_means = means
    /\ epsilon = eps
    /\ num_trials = n
    /\ under_test = who
    /\ eg_estimated_means = BanditEstimatedMeans(means)
    /\ eg_action_counts = BanditActionCounts(means)
    /\ action_values = EpsilonGreedyActionValues(means)
    /\ ts_estimated_means = BanditEstimatedMeans(means)
    /\ ts_action_counts = BanditActionCounts(means)
    /\ alpha = ThompsonSamplingAlpha(means)
    /\ beta = ThompsonSamplingBeta(means)
    /\ eg_pc = "idle" /\ ts_pc = "idle"
    /\ eg_iter = 0 /\ ts_iter = 0
    /\ eg_arm = <<>> /\ ts_arm = <<>>
    /\ eg_rewards = <<>> /\ ts_rewards = <<>>
    /\ eg_err = None /\ ts_err = None
    /\ eg_branch = None
    /\ eg_pulled = <<>> /\ ts_pulled = <<>>
    /\ eg_updates = EmptyBag /\ ts_updates = EmptyBag
    /\ ncalls = 0
    /\ report = <<>>
    /\ summary = <<>>

\* comparison(num_trials) over a valid configuration: K >= 1, epsilon in [0, 1].
Init ==
    \E k \in 1..MaxK : \E means \in ArmSets(k) : \E eps \in Epsilons :
        \E n \in 0..MaxTrials : Constructed(means, eps, n, "comparison")

\* ---------------------------------------------------------- EpsilonGreedy

\* Mutant of EGExplores: the test is random.random() <= self.epsilon.
EGExplores_OrEqual(eps, u) == ~FloatLess(eps, u)

\* EpsilonGreedy.pull, the test random.random() < self.epsilon for the draw u.
EGExplores(eps, u) == FloatLess(u, eps)

\* Mutant of EGGreedyArm: ties go to the last maximal arm.
EGGreedyArm_LastMax(values) ==
    CHOOSE a \in 0..(Len(values) - 1) :
        /\ values[a + 1] = PyMax(values)
        /\ \A b \in (a + 1)..(Len(values) - 1) : values[b + 1] # PyMax(values)

\* EpsilonGreedy.pull, else branch: self.action_values.index(max(self.action_values)).
EGGreedyArm(values) == PyIndex(values, PyMax(values))

\* Mutant of EpsilonGreedy_pull: exploration draws from 0..K inclusive.
EpsilonGreedy_pull_RandintK ==
    /\ \E u \in RandomValues :
        /\ eg_branch' = IF EGExplores(epsilon, u) THEN "explore" ELSE "exploit"
        /\ IF K = 0
           THEN eg_err' = "ValueError" /\ eg_arm' = eg_arm
           ELSE /\ eg_err' = None
                /\ IF EGExplores(epsilon, u)
                   THEN \E r \in 0..K : eg_arm' = <<r>>
                   ELSE eg_arm' = <<EGGreedyArm(action_values)>>
    /\ UNCHANGED <<eg_state, eg_updates>>

\* Mutant of EpsilonGreedy_pull: the pull itself counts the arm it returns.
EpsilonGreedy_pull_Counting ==
    /\ \E u \in RandomValues :
        /\ eg_branch' = IF EGExplores(epsilon, u) THEN "explore" ELSE "exploit"
        /\ IF K = 0
           THEN eg_err' = "ValueError" /\ eg_arm' = eg_arm
           ELSE /\ eg_err' = None
                /\ IF EGExplores(epsilon, u)
                   THEN \E r \in 0..(K - 1) : eg_arm' = <<r>>
                   ELSE eg_arm' = <<EGGreedyArm(action_values)>>
    /\ eg_action_counts' =
           IF K = 0 THEN eg_action_counts
           ELSE PySet(eg_action_counts, eg_arm'[1],
                      PyGet(eg_action_counts, eg_arm'[1]) + 1)
    /\ UNCHANGED <<eg_estimated_means, action_values, eg_updates>>

\* EpsilonGreedy.pull as a whole: random.random() returns some u; the explore
\* branch returns random.randint(0, K - 1), the other branch the greedy arm.
\* With no arms both randint(0, -1) and max([]) raise ValueError.
EpsilonGreedy_pull ==
    /\ \E u \in RandomValues :
        /\ eg_branch' = IF EGExplores(epsilon, u) THEN "explore" ELSE "exploit"
        /\ IF K = 0
           THEN eg_err' = "ValueError" /\ eg_arm' = eg_arm
           ELSE /\ eg_err' = None
                /\ IF EGExplores(epsilon, u)
                   THEN \E r \in 0..(K - 1) : eg_arm' = <<r>>
                   ELSE eg_arm' = <<EGGreedyArm(action_values)>>
    /\ UNCHANGED <<eg_state, eg_updates>>

\* Mutant of EGUpdateCounts: self.action_counts[arm] = 1.
EGUpdateCounts_Assign(counts, arm) == PySet(counts, arm, 1)

\* EpsilonGreedy.update line 73: self.action_counts[arm] += 1.
EGUpdateCounts(counts, arm) == PySet(counts, arm, PyGet(counts, arm) + 1)

\* Mutant of EGUpdateValues: the step adds reward / n to the old value.
EGUpdateValues_NoSubtract(values, counts, arm, reward) ==
    LET n == PyGet(counts, arm)
        v == PyGet(values, arm)
    IN  PySet(values, arm,
              FloatAdd(v, FloatMul(PyTrueDiv(1, n), IntToFloat(reward))))

\* EpsilonGreedy.update lines 74-75, counts being the incremented counts:
\* self.action_values[arm] += (1 / n) * (reward - self.action_values[arm]).
EGUpdateValues(values, counts, arm, reward) ==
    LET n == PyGet(counts, arm)
        v == PyGet(values, arm)
    IN  PySet(values, arm,
              FloatAdd(v, FloatMul(PyTrueDiv(1, n), FloatSub(IntToFloat(reward), v))))

\* EpsilonGreedy.update(arm, reward) as a whole.  A subscript out of range
\* raises IndexError at line 73, before anything is assigned.
EpsilonGreedy_update(arm, reward) ==
    /\ eg_updates' = eg_updates (+) SetToBag({<<arm, reward>>})
    /\ IF PyInRange(eg_action_counts, arm)
       THEN LET counts == EGUpdateCounts(eg_action_counts, arm)
            IN  /\ eg_action_counts' = counts
                /\ action_values' =
                       EGUpdateValues(action_values, counts, arm, reward)
                /\ eg_err' = None
       ELSE /\ eg_err' = "IndexError"
            /\ UNCHANGED <<eg_action_counts, action_values>>
    /\ UNCHANGED eg_estimated_means

\* Mutant of EGUpdateFloatValues: the step is 1 / (n + 1).
EGUpdateFloatValues_StaleStep(values, counts, arm, reward) ==
    LET n == PyGet(counts, arm) + 1
        v == PyGet(values, arm)
    IN  PySet(values, arm,
              FloatAdd(v, FloatMul(PyTrueDiv(1, n), FloatSub(reward, v))))

\* EpsilonGreedy.update lines 74-75 for a reward that is a float already:
\* reward - self.action_values[arm] converts nothing.
EGUpdateFloatValues(values, counts, arm, reward) ==
    LET n == PyGet(counts, arm)
        v == PyGet(values, arm)
    IN  PySet(values, arm,
              FloatAdd(v, FloatMul(PyTrueDiv(1, n), FloatSub(reward, v))))

\* EpsilonGreedy.update(arm, reward) as a whole, for a float reward.
EpsilonGreedy_update_float(arm, reward) ==
    /\ eg_updates' = eg_updates (+) SetToBag({<<arm, reward>>})
    /\ IF PyInRange(eg_action_counts, arm)
       THEN LET counts == EGUpdateCounts(eg_action_counts, arm)
            IN  /\ eg_action_counts' = counts
                /\ action_values' =
                       EGUpdateFloatValues(action_values, counts, arm, reward)
                /\ eg_err' = None
       ELSE /\ eg_err' = "IndexError"
            /\ UNCHANGED <<eg_action_counts, action_values>>
    /\ UNCHANGED eg_estimated_means

\* EpsilonGreedy.experiment is called: rewards = [].
EGExperiment ==
    /\ under_test = "comparison"
    /\ eg_pc = "idle"
    /\ eg_pc' = "loop"
    /\ eg_rewards' = <<>>
    /\ eg_iter' = 0
    /\ UNCHANGED <<config, eg_state, eg_arm, eg_err, eg_branch, eg_pulled,
                   eg_updates, ts_vars, ncalls, report, summary>>

\* One more iteration of for _ in range(num_trials): arm = self.pull().
EGLoopPull ==
    /\ eg_pc = "loop"
    /\ eg_iter < num_trials
    /\ EpsilonGreedy_pull
    /\ IF eg_err' = None
       THEN eg_pc' = "pulled" /\ eg_pulled' = Append(eg_pulled, eg_arm'[1])
       ELSE eg_pc' = "error" /\ eg_pulled' = eg_pulled
    /\ UNCHANGED <<config, eg_iter, eg_rewards, ts_vars, ncalls, report, summary>>

\* The rest of the iteration: reward = self.true_means[arm];
\* self.update(arm, reward); rewards.append(reward).
EGLoopUpdate ==
    /\ eg_pc = "pulled"
    /\ IF PyInRange(true_means, eg_arm[1])
       THEN LET reward == PyGet(true_means, eg_arm[1])
            IN  /\ EpsilonGreedy_update(eg_arm[1], reward)
                /\ IF eg_err' = None
                   THEN /\ eg_rewards' = Append(eg_rewards, reward)
                        /\ eg_iter' = eg_iter + 1
                        /\ eg_pc' = "loop"
                   ELSE eg_pc' = "error" /\ UNCHANGED <<eg_rewards, eg_iter>>
       ELSE /\ eg_err' = "IndexError"
            /\ eg_pc' = "error"
            /\ UNCHANGED <<eg_state, eg_updates, eg_rewards, eg_iter>>
    /\ UNCHANGED <<config, eg_arm, eg_branch, eg_pulled, ts_vars, ncalls, report, summary>>

\* Mutant of EGReturn: the loop runs over range(num_trials - 1).
EGReturn_OneShort ==
    /\ eg_pc = "loop"
    /\ eg_iter >= num_trials - 1
    /\ eg_pc' = "done"
    /\ UNCHANGED <<config, eg_state, eg_iter, eg_rewards, eg_pulled, eg_arm,
                   eg_err, eg_branch, eg_updates, ts_vars, ncalls, report, summary>>

\* range(num_trials) is exhausted: return rewards.
EGReturn ==
    /\ eg_pc = "loop"
    /\ eg_iter >= num_trials
    /\ eg_pc' = "done"
    /\ UNCHANGED <<config, eg_state, eg_iter, eg_rewards, eg_pulled, eg_arm,
                   eg_err, eg_branch, eg_updates, ts_vars, ncalls, report, summary>>

\* A client calls pull() on the EpsilonGreedy instance.
EGPullCall ==
    /\ under_test = "EpsilonGreedy"
    /\ summary = <<>>
    /\ ncalls < MaxCalls
    /\ ncalls' = ncalls + 1
    /\ EpsilonGreedy_pull
    /\ UNCHANGED <<config, eg_frame, ts_vars, report, summary>>

\* A client calls update(arm, reward) on the EpsilonGreedy instance.
EGUpdateCall ==
    /\ under_test = "EpsilonGreedy"
    /\ summary = <<>>
    /\ ncalls < MaxCalls
    /\ ncalls' = ncalls + 1
    /\ \E arm \in ArmInputs : \E reward \in RewardInputs :
           EpsilonGreedy_update(arm, reward)
    /\ UNCHANGED <<config, eg_frame, eg_arm, eg_branch, ts_vars, report, summary>>

\* A client calls update(arm, reward) on the EpsilonGreedy instance with
\* 0 <= arm < K and a float reward.
EGUpdateFloatCall ==
    /\ under_test = "EpsilonGreedy"
    /\ summary = <<>>
    /\ ncalls < MaxCalls
    /\ ncalls' = ncalls + 1
    /\ \E arm \in 0..(K - 1) : \E reward \in FloatRewardInputs :
           EpsilonGreedy_update_float(arm, reward)
    /\ UNCHANGED <<config, eg_frame, eg_arm, eg_branch, ts_vars, report, summary>>

\* sum(s) over a list of floats.
RECURSIVE PySumFloatFrom(_, _, _)
PySumFloatFrom(s, i, acc) ==
    IF i > Len(s) THEN acc ELSE PySumFloatFrom(s, i + 1, FloatAdd(acc, s[i]))

PySumFloat(s) == PySumFloatFrom(s, 1, IntToFloat(0))

\* EpsilonGreedy.report lines 87-88: avg_reward is the plain mean of the K
\* action_values, avg_regret = max(true_means) - avg_reward.  The result
\* holds the two numbers; their rendering with two decimals is not modelled.
EGReport(values, means) ==
    LET avg_reward == FloatDivInt(PySumFloat(values), Len(values))
    IN  [avg_reward |-> avg_reward,
         avg_regret |-> FloatSub(IntToFloat(PyMaxInt(means)), avg_reward)]

\* A client calls report() on the EpsilonGreedy instance; the instance is
\* discarded after reporting.
EGReportCall ==
    /\ under_test = "EpsilonGreedy"
    /\ summary = <<>>
    /\ summary' = <<EGReport(action_values, true_means)>>
    /\ UNCHANGED <<config, eg_vars, ts_vars, ncalls, report>>

\* -------------------------------------------------------- ThompsonSampling

\* ThompsonSampling.pull line 103: sampled_means.index(max(sampled_means)).
TSSampledArm(sampled_means) == PyIndex(sampled_means, PyMax(sampled_means))

\* ThompsonSampling.pull as a whole: one betavariate draw per arm (a Beta
\* distribution with parameters >= 1 can yield any value of (0, 1) for any
\* arm), then the first arm with the largest draw.  max([]) raises ValueError.
ThompsonSampling_pull ==
    /\ IF K = 0
       THEN ts_err' = "ValueError" /\ ts_arm' = ts_arm
       ELSE /\ ts_err' = None
            /\ \E sampled_means \in [1..K -> BetaValues] :
                   ts_arm' = <<TSSampledArm(sampled_means)>>
    /\ UNCHANGED <<ts_state, ts_updates>>

\* Mutant of TSUpdateAlpha: the test is reward >= 1.
TSUpdateAlpha_AtLeastOne(a, arm, reward) ==
    IF reward >= 1 THEN PySet(a, arm, PyGet(a, arm) + 1) ELSE a

\* ThompsonSampling.update lines 106-107: alpha after the call.
TSUpdateAlpha(a, arm, reward) ==
    IF reward = 1 THEN PySet(a, arm, PyGet(a, arm) + 1) ELSE a

\* Mutant of TSUpdateBeta: every update counts as a failure as well.
TSUpdateBeta_Always(b, arm, reward) == PySet(b, arm, PyGet(b, arm) + 1)

\* Mutant of TSUpdateBeta: only a reward of 0 counts as a failure.
TSUpdateBeta_OnZero(b, arm, reward) ==
    IF reward = 0 THEN PySet(b, arm, PyGet(b, arm) + 1) ELSE b

\* ThompsonSampling.update lines 108-109: beta after the call.
TSUpdateBeta(b, arm, reward) ==
    IF reward = 1 THEN b ELSE PySet(b, arm, PyGet(b, arm) + 1)

\* Mutant of ThompsonSampling_update: the update also counts the arm in the
\* inherited action_counts.
ThompsonSampling_update_Counting(arm, reward) ==
    /\ ts_updates' = ts_updates (+) SetToBag({<<arm, reward>>})
    /\ IF PyInRange(alpha, arm)
       THEN /\ alpha' = TSUpdateAlpha(alpha, arm, reward)
            /\ beta' = TSUpdateBeta(beta, arm, reward)
            /\ ts_action_counts' =
                   PySet(ts_action_counts, arm, PyGet(ts_action_counts, arm) + 1)
            /\ ts_err' = None
       ELSE /\ ts_err' = "IndexError"
            /\ UNCHANGED <<alpha, beta, ts_action_counts>>
    /\ UNCHANGED ts_estimated_means

\* ThompsonSampling.update(arm, reward) as a whole.  A subscript out of range
\* raises IndexError at line 107 or 109, before anything is assigned.
ThompsonSampling_update(arm, reward) ==
    /\ ts_updates' = ts_updates (+) SetToBag({<<arm, reward>>})
    /\ IF PyInRange(alpha, arm)
       THEN /\ alpha' = TSUpdateAlpha(alpha, arm, reward)
            /\ beta' = TSUpdateBeta(beta, arm, reward)
            /\ ts_err' = None
       ELSE /\ ts_err' = "IndexError"
            /\ UNCHANGED <<alpha, beta>>
    /\ UNCHANGED <<ts_estimated_means, ts_action_counts>>

\* ThompsonSampling.experiment is called: rewards = [].
TSExperiment ==
    /\ under_test = "comparison"
    /\ ts_pc = "idle"
    /\ ts_pc' = "loop"
    /\ ts_rewards' = <<>>
    /\ ts_iter' = 0
    /\ UNCHANGED <<config, ts_state, ts_arm, ts_err, ts_pulled, ts_updates,
                   eg_vars, ncalls, report, summary>>

\* One more iteration of for _ in range(num_trials): arm = self.pull().
TSLoopPull ==
    /\ ts_pc = "loop"
    /\ ts_iter < num_trials
    /\ ThompsonSampling_pull
    /\ IF ts_err' = None
       THEN ts_pc' = "pulled" /\ ts_pulled' = Append(ts_pulled, ts_arm'[1])
       ELSE ts_pc' = "error" /\ ts_pulled' = ts_pulled
    /\ UNCHANGED <<config, ts_iter, ts_rewards, eg_vars, ncalls, report, summary>>

\* Mutant of TSLoopUpdate: action_counts is one list shared by both
\* instances, and ThompsonSampling counts its pulls in it.
TSLoopUpdate_SharedCounts ==
    /\ ts_pc = "pulled"
    /\ LET reward == PyGet(true_means, ts_arm[1])
       IN  /\ ThompsonSampling_update(ts_arm[1], reward)
           /\ ts_rewards' = Append(ts_rewards, reward)
           /\ ts_iter' = ts_iter + 1
           /\ ts_pc' = "loop"
           /\ eg_action_counts' = EGUpdateCounts(eg_action_counts, ts_arm[1])
    /\ UNCHANGED <<config, ts_arm, ts_pulled, eg_estimated_means, action_values,
                   eg_frame, eg_arm, eg_err, eg_branch, eg_updates, ncalls,
                   report, summary>>

\* The rest of the iteration: reward = self.true_means[arm];
\* self.update(arm, reward); rewards.append(reward).
TSLoopUpdate ==
    /\ ts_pc = "pulled"
    /\ IF PyInRange(true_means, ts_arm[1])
       THEN LET reward == PyGet(true_means, ts_arm[1])
            IN  /\ ThompsonSampling_update(ts_arm[1], reward)
                /\ IF ts_err' = None
                   THEN /\ ts_rewards' = Append(ts_rewards, reward)
                        /\ ts_iter' = ts_iter + 1
                        /\ ts_pc' = "loop"
                   ELSE ts_pc' = "error" /\ UNCHANGED <<ts_rewards, ts_iter>>
       ELSE /\ ts_err' = "IndexError"
            /\ ts_pc' = "error"
            /\ UNCHANGED <<ts_state, ts_updates, ts_rewards, ts_iter>>
    /\ UNCHANGED <<config, ts_arm, ts_pulled, eg_vars, ncalls, report, summary>>

\* range(num_trials) is exhausted: return rewards.
TSReturn ==
    /\ ts_pc = "loop"
    /\ ts_iter >= num_trials
    /\ ts_pc' = "done"
    /\ UNCHANGED <<config, ts_state, ts_iter, ts_rewards, ts_pulled, ts_arm,
                   ts_err, ts_updates, eg_vars, ncalls, report, summary>>

\* A client calls pull() on the ThompsonSampling instance.
TSPullCall ==
    /\ under_test = "ThompsonSampling"
    /\ summary = <<>>
    /\ ncalls < MaxCalls
    /\ ncalls' = ncalls + 1
    /\ ThompsonSampling_pull
    /\ UNCHANGED <<config, ts_frame, eg_vars, report, summary>>

\* A client calls update(arm, reward) on the ThompsonSampling instance.
TSUpdateCall ==
    /\ under_test = "ThompsonSampling"
    /\ summary = <<>>
    /\ ncalls < MaxCalls
    /\ ncalls' = ncalls + 1
    /\ \E arm \in ArmInputs : \E reward \in RewardInputs :
           ThompsonSampling_update(arm, reward)
    /\ UNCHANGED <<config, ts_frame, ts_arm, eg_vars, report, summary>>

\* Mutant of TSReport: avg_reward = sum(alpha) / sum(alpha) + sum(beta).
TSReport_NoParentheses(a, b, means) ==
    LET avg_reward ==
            FloatAdd(PyTrueDiv(PySum(a), PySum(a)), IntToFloat(PySum(b)))
    IN  [avg_reward |-> avg_reward,
         avg_regret |-> FloatSub(IntToFloat(PyMaxInt(means)), avg_reward)]

\* ThompsonSampling.report lines 121-122:
\* avg_reward = sum(alpha) / (sum(alpha) + sum(beta)),
\* avg_regret = max(true_means) - avg_reward.  The result holds the two
\* numbers; their rendering with two decimals is not modelled.
TSReport(a, b, means) ==
    LET avg_reward == PyTrueDiv(PySum(a), PySum(a) + PySum(b))
    IN  [avg_reward |-> avg_reward,
         avg_regret |-> FloatSub(IntToFloat(PyMaxInt(means)), avg_reward)]

\* A client calls report() on the ThompsonSampling instance; the instance is
\* discarded after reporting.
TSReportCall ==
    /\ under_test = "ThompsonSampling"
    /\ summary = <<>>
    /\ summary' = <<TSReport(alpha, beta, true_means)>>
    /\ UNCHANGED <<config, eg_vars, ts_vars, ncalls, report>>

\* ----------------------------------------------------------- Visualization

\* Mutant of CumulativeRegret: the first arm's mean stands in for the maximum.
CumulativeRegret_FirstMean(means, rewards) ==
    means[1] * Len(rewards) - PySum(rewards)

\* report_cumulative_reward_and_regret lines 183-184:
\* max(true_means) * len(rewards) - sum(rewards).
CumulativeRegret(means, rewards) == PyMaxInt(means) * Len(rewards) - PySum(rewards)

\* Visualization.report_cumulative_reward_and_regret on the two lists the
\* experiments returned.  max([]) raises ValueError.
Report ==
    /\ eg_pc = "done" /\ ts_pc = "done"
    /\ report = <<>>
    /\ report' =
         IF K = 0
         THEN <<[err |-> "ValueError"]>>
         ELSE <<[err |-> None,
                 cumulative_epsilon_greedy_reward |-> PySum(eg_rewards),
                 cumulative_thompson_reward |-> PySum(ts_rewards),
                 cumulative_epsilon_greedy_regret |->
                     CumulativeRegret(true_means, eg_rewards),
                 cumulative_thompson_regret |->
                     CumulativeRegret(true_means, ts_rewards)]>>
    /\ UNCHANGED <<config, eg_vars, ts_vars, ncalls, summary>>

\* ---------------------------------------------------------- specifications

\* comparison line 199: thompson_bandit.experiment(num_trials) is called once
\* epsilon_greedy_bandit.experiment(num_trials) has returned.
TSExperimentAfterEG ==
    /\ eg_pc = "done"
    /\ TSExperiment

\* comparison: the EpsilonGreedy experiment, then the ThompsonSampling
\* experiment, then the report.
Next ==
    \/ EGExperiment \/ EGLoopPull \/ EGLoopUpdate \/ EGReturn
    \/ TSExperimentAfterEG \/ TSLoopPull \/ TSLoopUpdate \/ TSReturn
    \/ Report

Spec == Init /\ [][Next]_vars

\* The two experiments run in parallel: their iterations interleave in any
\* order, which includes the order of comparison.
NextParallel ==
    \/ EGExperiment \/ EGLoopPull \/ EGLoopUpdate \/ EGReturn
    \/ TSExperiment \/ TSLoopPull \/ TSLoopUpdate \/ TSReturn
    \/ Report

\* comparison's own instances: epsilon = 0.2.
InitParallel ==
    \E k \in 1..MaxK : \E means \in ArmSets(k) : \E n \in 0..MaxTrials :
        Constructed(means, PyTrueDiv(1, 5), n, "comparison")

SpecParallel == InitParallel /\ [][NextParallel]_vars

\* true_means lists a client constructs an instance over: the prefixes of
\* the module's true_means, and [0, 1].
CallArmSets(k) ==
    {SubSeq(ModuleTrueMeans, 1, k)} \cup (IF k = 2 THEN {<<0, 1>>} ELSE {})

\* A client holding one policy instance calls its pull, update and report
\* directly, with any arm subscript and reward.  pull and update read
\* true_means only through len(true_means), and report through
\* max(true_means).  ThompsonSampling has no epsilon.
InitCalls ==
    \E k \in 1..MaxK : \E means \in CallArmSets(k) : \E eps \in Epsilons :
        \E who \in {"EpsilonGreedy", "ThompsonSampling"} :
            /\ who = "ThompsonSampling" => eps = PyTrueDiv(1, 5)
            /\ Constructed(means, eps, 0, who)

NextCalls ==
    \/ EGPullCall \/ EGUpdateCall \/ EGReportCall
    \/ TSPullCall \/ TSUpdateCall \/ TSReportCall

SpecCalls == InitCalls /\ [][NextCalls]_vars

\* A client holding one EpsilonGreedy instance over the first k module-level
\* true means calls update on it with valid arms and float rewards.
InitUpdates ==
    \E k \in 1..MaxK :
        Constructed(SubSeq(ModuleTrueMeans, 1, k), PyTrueDiv(1, 5), 0,
                    "EpsilonGreedy")

NextUpdates == EGUpdateFloatCall

SpecUpdates == InitUpdates /\ [][NextUpdates]_vars

\* comparison as a running program: single-threaded, with no suspension
\* point, so a step that can be taken is eventually taken.
FairSpec == Spec /\ WF_vars(Next)

\* comparison over any configuration the constructors and experiment accept:
\* no arms, epsilon outside [0, 1], num_trials <= 0 included.
InitConfig ==
    \E k \in 0..MaxK : \E means \in ArmSets(k) :
        \E eps \in Epsilons \cup BadEpsilons :
            \E n \in (-1)..MaxTrials : Constructed(means, eps, n, "comparison")

SpecConfig == InitConfig /\ [][Next]_vars

\* ------------------------------------------------------------------ claims

\* The number of calls recorded in bag B among the distinct calls S.
RECURSIVE NumCalls(_, _)
NumCalls(B, S) ==
    IF S = {} THEN 0
    ELSE LET c == CHOOSE x \in S : TRUE
         IN  CopiesIn(c, B) + NumCalls(B, S \ {c})

\* The exact sum of the float rewards of the calls recorded in bag B among
\* the distinct calls S, as <<s, m, e>> with m of any size.
RECURSIVE SumRewards(_, _)
SumRewards(B, S) ==
    IF S = {} THEN FloatZero
    ELSE LET c == CHOOSE x \in S : TRUE
         IN  FloatSum[FloatProduct[c[2], IntToFloat(CopiesIn(c, B))],
                      SumRewards(B, S \ {c})]

\* The largest of least and the |reward| of the calls S.
RECURSIVE LargestReward(_, _)
LargestReward(S, least) ==
    IF S = {} THEN least
    ELSE LET c == CHOOSE x \in S : TRUE
             r == FloatAbs[c[2]]
         IN  LargestReward(S \ {c}, IF FloatLess(least, r) THEN r ELSE least)

\* The distinct update calls recorded in B that were made with arm a.
CallsWithArm(B, a) == {c \in BagToSet(B) : c[1] = a}

\* Every update call recorded in B was made with 0 <= arm < K.
OnlyValidArms(B) == \A c \in BagToSet(B) : c[1] \in 0..(K - 1)

\* The bag of calls update(pulled[t], true_means[pulled[t]]), t = 1..n.
RECURSIVE TrialUpdates(_, _)
TrialUpdates(pulled, n) ==
    IF n = 0 THEN EmptyBag
    ELSE TrialUpdates(pulled, n - 1)
             (+) SetToBag({<<pulled[n], true_means[pulled[n] + 1]>>})

\* One experiment seen through its frame: pulls and updates alternate, one
\* of each per trial, the update gets the pulled arm and its true mean, and
\* rewards holds the true mean of the arm pulled in each trial.
TrialsInOrder(pc, iter, rewards, pulled, updates) ==
    /\ Len(rewards) = iter
    /\ Len(pulled) = IF pc = "pulled" THEN iter + 1 ELSE iter
    /\ updates = TrialUpdates(pulled, iter)
    /\ \A t \in 1..iter : rewards[t] = true_means[pulled[t] + 1]
    /\ pc = "done" => Len(rewards) = num_trials

\* C1: for either policy and any num_trials >= 0, experiment(num_trials)
\* terminates and returns exactly num_trials rewards; each trial calls pull
\* once and then update once with the pulled arm and reward true_means[arm],
\* and the t-th reward is the true mean of the arm pulled in trial t.
C1_ExperimentReturnsRewards ==
    /\ <>(eg_pc = "done")
    /\ <>(ts_pc = "done")
    /\ [](TrialsInOrder(eg_pc, eg_iter, eg_rewards, eg_pulled, eg_updates))
    /\ [](TrialsInOrder(ts_pc, ts_iter, ts_rewards, ts_pulled, ts_updates))

\* Both experiments returned two rewards, not all equal.
C1_Witness ==
    /\ eg_pc = "done" /\ ts_pc = "done"
    /\ num_trials = 2
    /\ Len(eg_rewards) = 2 /\ eg_rewards[1] # eg_rewards[2]
    /\ Len(ts_rewards) = 2 /\ ts_rewards[1] # ts_rewards[2]

\* C2: after any sequence of EpsilonGreedy.update calls with 0 <= arm < K,
\* action_counts[i] is the number of calls made with arm i, for every i;
\* the counts start at 0 and never decrease.
C2_CountsMatchUpdates ==
    /\ \A i \in 1..K : eg_action_counts[i] = 0
    /\ [](OnlyValidArms(eg_updates) =>
            \A i \in 0..(K - 1) :
                eg_action_counts[i + 1] =
                    NumCalls(eg_updates, CallsWithArm(eg_updates, i)))
    /\ [][\A i \in 1..K : eg_action_counts'[i] >= eg_action_counts[i]]_vars

\* Two valid updates of arm 0 and one of arm 1 were made.
C2_Witness ==
    /\ OnlyValidArms(eg_updates)
    /\ BagCardinality(eg_updates) = 3
    /\ eg_action_counts = <<2, 1>>

\* The relative tolerance of the comparison: 2^-30, a little under 1e-9.
Tolerance == <<1, <<1>>, -30>>

\* |v * n - total| <= n * Tolerance * scale, computed exactly: v is within
\* Tolerance * scale of total / n.
NearMean(v, total, n, scale) ==
    ~FloatLess(FloatProduct[FloatProduct[IntToFloat(n), Tolerance], scale],
               FloatAbs[FloatSum[FloatProduct[v, IntToFloat(n)],
                                 FloatNeg[total]]])

\* The double nearest to total / n.
NearestMean(total, n) == FloatRounded[FloatDivNat[total, n]]

\* C3 as stated: after updates of arm a with rewards r1..rn (n >= 1),
\* interleaved with updates of other arms, action_values[a] equals
\* (r1 + ... + rn) / n, the double nearest to the mean of the rewards passed
\* for a; an arm never updated keeps action_values 0.
C3_ValuesAreSampleMeans ==
    OnlyValidArms(eg_updates) =>
        \A a \in 0..(K - 1) :
            LET calls == CallsWithArm(eg_updates, a)
                n == NumCalls(eg_updates, calls)
                v == action_values[a + 1]
            IN  IF n = 0 THEN v = FloatZero
                ELSE v = NearestMean(SumRewards(eg_updates, calls), n)

\* C3, amended: after updates of arm a with rewards r1..rn (n >= 1),
\* interleaved with updates of other arms, action_values[a] equals
\* (r1 + ... + rn) / n within floating-point tolerance, taken here as
\* Tolerance relative to the largest of 1 and the |ri|; an arm never updated
\* keeps action_values 0.
C3_ValuesNearSampleMeans ==
    OnlyValidArms(eg_updates) =>
        \A a \in 0..(K - 1) :
            LET calls == CallsWithArm(eg_updates, a)
                n == NumCalls(eg_updates, calls)
                v == action_values[a + 1]
            IN  IF n = 0 THEN v = FloatZero
                ELSE NearMean(v, SumRewards(eg_updates, calls), n,
                              LargestReward(calls, IntToFloat(1)))

\* Arm 0 was updated three times with rewards summing to 4, in an order that
\* leaves a value other than the double nearest 4 / 3, and arm 1 never.
C3_Witness ==
    /\ OnlyValidArms(eg_updates)
    /\ K = 2
    /\ NumCalls(eg_updates, CallsWithArm(eg_updates, 0)) = 3
    /\ SumRewards(eg_updates, CallsWithArm(eg_updates, 0)) = IntToFloat(4)
    /\ action_values[1] # PyTrueDiv(4, 3)
    /\ action_values[2] = FloatZero

\* C4: after any sequence of ThompsonSampling.update calls with valid arms,
\* alpha[a] - 1 is the number of updates of a with reward == 1, beta[a] - 1
\* the number with reward != 1, and alpha[a] + beta[a] - 2 the number of
\* updates of a.
C4_AlphaBetaCountOutcomes ==
    OnlyValidArms(ts_updates) =>
        \A a \in 0..(K - 1) :
            LET calls == CallsWithArm(ts_updates, a)
            IN  /\ alpha[a + 1] - 1 =
                       NumCalls(ts_updates, {c \in calls : c[2] = 1})
                /\ beta[a + 1] - 1 =
                       NumCalls(ts_updates, {c \in calls : c[2] # 1})
                /\ alpha[a + 1] + beta[a + 1] - 2 = NumCalls(ts_updates, calls)

\* Arm 0 was updated with rewards 1, 0 and 2.
C4_Witness ==
    /\ OnlyValidArms(ts_updates)
    /\ CopiesIn(<<0, 1>>, ts_updates) = 1
    /\ CopiesIn(<<0, 0>>, ts_updates) = 1
    /\ CopiesIn(<<0, 2>>, ts_updates) = 1
    /\ alpha[1] = 2 /\ beta[1] = 3

\* A step in which the client called pull: a call that is not an update.
PullCalled ==
    /\ ncalls' = ncalls + 1
    /\ eg_updates' = eg_updates
    /\ ts_updates' = ts_updates

\* C5: in every reachable state a call of pull, of either policy and through
\* either branch, leaves action_counts, action_values, alpha, beta,
\* true_means and estimated_means as they were.
C5_PullMutatesNothing ==
    [][PullCalled =>
         UNCHANGED <<eg_action_counts, action_values, alpha, beta, true_means,
                     eg_estimated_means, ts_estimated_means,
                     ts_action_counts>>]_vars

\* pull explored and returned arm 0 although arm 1 has the larger value 2,
\* set by an earlier update.
C5_Witness ==
    /\ under_test = "EpsilonGreedy"
    /\ eg_branch = "explore"
    /\ eg_arm = <<0>>
    /\ action_values = <<FloatZero, IntToFloat(2)>>
    /\ eg_action_counts = <<0, 1>>

\* Arm a holds the largest value and every arm before it a smaller one.
IsFirstMaximalArm(values, a) ==
    /\ a \in 0..(Len(values) - 1)
    /\ \A j \in 1..Len(values) : ~FloatLess(values[a + 1], values[j])
    /\ \A j \in 1..a : FloatLess(values[j], values[a + 1])

\* C6: with epsilon = 0, in every reachable state EpsilonGreedy.pull takes
\* the exploit branch and returns the smallest index whose action_values
\* entry is the maximum: the result is determined by the state.
C6_GreedyPullIsFirstArgMax ==
    [][(epsilon = FloatZero /\ under_test = "EpsilonGreedy" /\ PullCalled) =>
         /\ eg_branch' = "exploit"
         /\ eg_err' = None
         /\ Len(eg_arm') = 1
         /\ IsFirstMaximalArm(action_values, eg_arm'[1])]_vars

\* With epsilon = 0 and both arms tied at value 1, pull returned arm 0.
C6_Witness ==
    /\ epsilon = FloatZero
    /\ eg_branch = "exploit"
    /\ eg_arm = <<0>>
    /\ action_values = <<IntToFloat(1), IntToFloat(1)>>

\* C7: update(arm, reward) with arm outside [0, K), negative or >= K, fails
\* with an error and changes no counts, values, alpha or beta entry.
C7_InvalidArmRejected ==
    [][\A arm \in ArmInputs \ (0..(K - 1)) : \A reward \in RewardInputs :
         /\ eg_updates' = eg_updates (+) SetToBag({<<arm, reward>>}) =>
              /\ eg_err' = "IndexError"
              /\ UNCHANGED <<eg_action_counts, action_values>>
         /\ ts_updates' = ts_updates (+) SetToBag({<<arm, reward>>}) =>
              /\ ts_err' = "IndexError"
              /\ UNCHANGED <<alpha, beta>>]_vars

\* C8: an invalid configuration is rejected where it is supplied: no policy
\* is constructed over K = 0 arms or with epsilon outside [0, 1], and
\* experiment(num_trials) with num_trials <= 0 fails at the call instead of
\* entering its loop or returning.
C8_InvalidConfigurationRejected ==
    /\ K >= 1
    /\ ~FloatLess(epsilon, FloatZero) /\ ~FloatLess(IntToFloat(1), epsilon)
    /\ num_trials <= 0 =>
           /\ eg_pc \notin {"loop", "pulled", "done"}
           /\ ts_pc \notin {"loop", "pulled", "done"}

\* Arm a has the largest true mean.
IsBestArm(a) == \A j \in 1..K : true_means[j] <= true_means[a + 1]

\* C9: the cumulative regret reported for the rewards of an experiment,
\* max(true_means) * n - sum(rewards), is non-negative, and is 0 exactly when
\* every trial selected an arm with the largest true mean.
C9_RegretNonNegative ==
    report # <<>> =>
        /\ report[1].err = None
        /\ report[1].cumulative_epsilon_greedy_regret >= 0
        /\ report[1].cumulative_thompson_regret >= 0
        /\ report[1].cumulative_epsilon_greedy_regret = 0
               <=> \A t \in 1..Len(eg_pulled) : IsBestArm(eg_pulled[t])
        /\ report[1].cumulative_thompson_regret = 0
               <=> \A t \in 1..Len(ts_pulled) : IsBestArm(ts_pulled[t])

\* Over two trials EpsilonGreedy always chose a best arm (regret 0) and
\* ThompsonSampling did not (regret > 0).
C9_Witness ==
    /\ report # <<>>
    /\ num_trials = 2
    /\ Len(eg_rewards) = 2 /\ Len(ts_rewards) = 2
    /\ report[1].cumulative_epsilon_greedy_regret = 0
    /\ report[1].cumulative_thompson_regret > 0

\* Arm a is one EpsilonGreedy.pull can return when action_values = values.
EGCanPull(values, a) ==
    \E u \in RandomValues : \E r \in 0..(K - 1) :
        a = IF EGExplores(epsilon, u) THEN r ELSE EGGreedyArm(values)

\* EpsilonGreedy run alone: the instance and rewards after the first n
\* trials, the t-th of which pulled arm pulled[t]; ok says that each of these
\* arms is one pull can return in the state the run alone is in.
RECURSIVE EGAlone(_, _)
EGAlone(pulled, n) ==
    IF n = 0
    THEN [counts |-> BanditActionCounts(true_means),
          values |-> EpsilonGreedyActionValues(true_means),
          rewards |-> <<>>,
          ok |-> TRUE]
    ELSE LET p == EGAlone(pulled, n - 1)
             a == pulled[n]
             c == EGUpdateCounts(p.counts, a)
         IN  [counts |-> c,
              values |-> EGUpdateValues(p.values, c, a, true_means[a + 1]),
              rewards |-> Append(p.rewards, true_means[a + 1]),
              ok |-> p.ok /\ EGCanPull(p.values, a)]

\* ThompsonSampling run alone, likewise; its pull can return any arm.
RECURSIVE TSAlone(_, _)
TSAlone(pulled, n) ==
    IF n = 0
    THEN [alpha |-> ThompsonSamplingAlpha(true_means),
          beta |-> ThompsonSamplingBeta(true_means),
          rewards |-> <<>>,
          ok |-> TRUE]
    ELSE LET p == TSAlone(pulled, n - 1)
             a == pulled[n]
         IN  [alpha |-> TSUpdateAlpha(p.alpha, a, true_means[a + 1]),
              beta |-> TSUpdateBeta(p.beta, a, true_means[a + 1]),
              rewards |-> Append(p.rewards, true_means[a + 1]),
              ok |-> p.ok /\ a \in 0..(K - 1)]

\* C10: with the trials of the two experiments interleaved in any order, no
\* step of one policy changes the other's state, true_means is never written,
\* and each policy's state and rewards are those of running it alone with
\* the same pulls, each pull (the one of a trial under way included) being
\* one the policy alone could have made.
C10_PoliciesDoNotInterfere ==
    /\ [](LET eg == EGAlone(eg_pulled, eg_iter)
          IN  /\ eg.ok
              /\ eg_action_counts = eg.counts
              /\ action_values = eg.values
              /\ eg_rewards = eg.rewards
              /\ \A t \in (eg_iter + 1)..Len(eg_pulled) :
                     EGCanPull(eg.values, eg_pulled[t]))
    /\ [](LET ts == TSAlone(ts_pulled, ts_iter)
          IN  /\ ts.ok
              /\ alpha = ts.alpha
              /\ beta = ts.beta
              /\ ts_rewards = ts.rewards
              /\ \A t \in (ts_iter + 1)..Len(ts_pulled) :
                     ts_pulled[t] \in 0..(K - 1))
    /\ [][/\ true_means' = true_means
          /\ eg_frame' # eg_frame => UNCHANGED ts_vars
          /\ ts_frame' # ts_frame => UNCHANGED eg_vars]_vars

\* Both experiments are in the middle of their second trial at once.
C10_Witness ==
    /\ eg_pc = "pulled" /\ ts_pc = "pulled"
    /\ eg_iter = 1 /\ ts_iter = 1
    /\ eg_action_counts # BanditActionCounts(true_means)
    /\ alpha # beta

-----------------------------------------------------------------------------
\* The ThompsonSampling instance over true_means [0, 1] has received exactly
\* one update, update(0, 1), and has then reported.
TSOneSuccessReported ==
    /\ under_test = "ThompsonSampling"
    /\ true_means = <<0, 1>>
    /\ ts_updates = SetToBag({<<0, 1>>})
    /\ summary # <<>>

\* C11 as stated: with true_means [0, 1], after the single call
\* update(0, 1) the state is alpha = [2, 1] and beta = [1, 2], and report
\* computes avg_reward = 3/6 = 0.5 and avg_regret = 1 - 0.5 = 0.5.
C11_AsStated ==
    TSOneSuccessReported =>
        /\ alpha = <<2, 1>>
        /\ beta = <<1, 2>>
        /\ summary[1].avg_reward = PyTrueDiv(1, 2)
        /\ summary[1].avg_regret = PyTrueDiv(1, 2)

\* C11, amended: with true_means [0, 1], after the single call update(0, 1)
\* the state is alpha = [2, 1] and beta = [1, 1], and report computes
\* avg_reward = 3/5 = 0.6 and avg_regret = 1 - 0.6 = 0.4.
C11_ReportAfterOneSuccess ==
    TSOneSuccessReported =>
        /\ alpha = <<2, 1>>
        /\ beta = <<1, 1>>
        /\ summary[1].avg_reward = PyTrueDiv(3, 5)
        /\ summary[1].avg_regret = PyTrueDiv(2, 5)

\* The report of that instance has been computed.
C11_Witness ==
    /\ TSOneSuccessReported
    /\ summary = <<[avg_reward |-> PyTrueDiv(3, 5), avg_regret |-> PyTrueDiv(2, 5)]>>

-----------------------------------------------------------------------------
\* C12: with K >= 1 arms and epsilon in [0, 1], every arm a pull of either
\* policy returns lies in 0..K-1, so during experiment update is never
\* called with an arm out of range and the read of true_means[arm] never
\* fails: no experiment ends in an error.
C12_PulledArmsInRange ==
    /\ eg_arm # <<>> => eg_arm[1] \in 0..(K - 1)
    /\ ts_arm # <<>> => ts_arm[1] \in 0..(K - 1)
    /\ \A t \in 1..Len(eg_pulled) : eg_pulled[t] \in 0..(K - 1)
    /\ \A t \in 1..Len(ts_pulled) : ts_pulled[t] \in 0..(K - 1)
    /\ OnlyValidArms(eg_updates) /\ OnlyValidArms(ts_updates)
    /\ eg_err = None /\ ts_err = None
    /\ eg_pc # "error" /\ ts_pc # "error"

\* An exploring pull has returned the last arm, K - 1, which the greedy
\* branch would not have chosen, and the trial's update has gone through;
\* the ThompsonSampling experiment has updated the last arm too.
C12_Witness ==
    /\ K = MaxK
    /\ eg_branch = "explore"
    /\ eg_arm = <<K - 1>>
    /\ <<K - 1, true_means[K]>> \in BagToSet(eg_updates)
    /\ <<0, true_means[1]>> \in BagToSet(eg_updates)
    /\ <<K - 1, true_means[K]>> \in BagToSet(ts_updates)
    /\ ts_pc = "done"

-----------------------------------------------------------------------------
\* The number of completed trials, among the first n, that selected arm a.
TrialsSelecting(pulled, n, a) == Cardinality({t \in 1..n : pulled[t] = a})

\* C13: throughout a ThompsonSampling experiment on a fresh policy,
\* alpha[a] exceeds 1 only for an arm whose true mean is exactly 1; for an
\* arm whose true mean is not 1, alpha[a] stays 1 and beta[a] - 1 is the
\* number of trials that selected a; for an arm whose true mean is 1,
\* beta[a] stays 1.
C13_OnlyMeanOneSucceeds ==
    \A a \in 0..(K - 1) :
        /\ alpha[a + 1] > 1 => true_means[a + 1] = 1
        /\ true_means[a + 1] # 1 =>
               /\ alpha[a + 1] = 1
               /\ beta[a + 1] - 1 = TrialsSelecting(ts_pulled, ts_iter, a)
        /\ true_means[a + 1] = 1 => beta[a + 1] = 1

\* The experiment has selected an arm of mean 1 once and an arm of mean 2
\* once.
C13_Witness ==
    /\ true_means = <<1, 2>>
    /\ ts_iter = 2
    /\ alpha = <<2, 1>>
    /\ beta = <<1, 2>>

-----------------------------------------------------------------------------
\* C14: throughout an EpsilonGreedy experiment, rewards being the arms'
\* fixed true means, action_values[a] is 0 while action_counts[a] is 0 and
\* is exactly true_means[a] from the arm's first selection on.
C14_ValuesAreTrueMeans ==
    \A a \in 0..(K - 1) :
        /\ eg_action_counts[a + 1] = 0 => action_values[a + 1] = FloatZero
        /\ eg_action_counts[a + 1] >= 1 =>
               action_values[a + 1] = IntToFloat(true_means[a + 1])

\* One arm has been selected twice and the other never.
C14_Witness ==
    /\ true_means = <<1, 2>>
    /\ eg_iter = 2
    /\ eg_action_counts = <<0, 2>>
    /\ action_values = <<FloatZero, IntToFloat(2)>>

-----------------------------------------------------------------------------
\* C15: for EpsilonGreedy with epsilon = 0 and true_means[0] > 0,
\* experiment(n) selects arm 0 on every trial, every reward is
\* true_means[0], and on return action_counts is [n, 0, ..., 0].
C15_GreedyLocksOntoArmZero ==
    (epsilon = FloatZero /\ true_means[1] > 0) =>
        /\ \A t \in 1..Len(eg_pulled) : eg_pulled[t] = 0
        /\ \A t \in 1..Len(eg_rewards) : eg_rewards[t] = true_means[1]
        /\ eg_pc = "done" =>
               /\ Len(eg_rewards) = num_trials
               /\ eg_action_counts =
                      [i \in 1..K |-> IF i = 1 THEN num_trials ELSE 0]

\* A purely greedy experiment of two trials has returned, the better arm
\* never tried.
C15_Witness ==
    /\ epsilon = FloatZero
    /\ true_means = <<1, 2>>
    /\ num_trials = 2
    /\ eg_pc = "done"
    /\ eg_action_counts = <<2, 0>>
    /\ eg_rewards = <<1, 1>>

-----------------------------------------------------------------------------
\* C16: after t completed trials of an experiment on a fresh policy,
\* sum(action_counts) = t for EpsilonGreedy and
\* sum(alpha) + sum(beta) - 2K = t for ThompsonSampling, and both equal the
\* length of the rewards list built so far.
C16_CountsSumToTrials ==
    /\ PySum(eg_action_counts) = eg_iter
    /\ Len(eg_rewards) = eg_iter
    /\ PySum(alpha) + PySum(beta) - 2 * K = ts_iter
    /\ Len(ts_rewards) = ts_iter

\* Both experiments have completed two trials, ThompsonSampling with one
\* success and one failure.
C16_Witness ==
    /\ eg_iter = 2 /\ ts_iter = 2
    /\ PySum(eg_action_counts) = 2
    /\ PySum(alpha) = K + 1
    /\ PySum(beta) = K + 1

-----------------------------------------------------------------------------
\* C17: ThompsonSampling never writes the inherited action_counts and
\* estimated_means, which stay all 0 and all 0.0; EpsilonGreedy never
\* writes estimated_means; and true_means, estimated_means and
\* action_counts keep the length K they were constructed with.
C17_InheritedFieldsUntouched ==
    /\ [](/\ ts_action_counts = PyRepeat(0, K)
          /\ ts_estimated_means = PyRepeat(FloatZero, K)
          /\ eg_estimated_means = PyRepeat(FloatZero, K)
          /\ Len(eg_action_counts) = K)
    /\ [][Len(true_means') = Len(true_means)]_vars

\* A ThompsonSampling instance has taken a success and a failure and has
\* reported, its inherited fields as constructed.
C17_Witness ==
    /\ under_test = "ThompsonSampling"
    /\ PySum(alpha) = K + 1
    /\ PySum(beta) = K + 1
    /\ summary # <<>>
    /\ ts_action_counts = PyRepeat(0, K)
    /\ ts_estimated_means = PyRepeat(FloatZero, K)

=============================================================================
